---------------------------- MODULE Spec2Model ----------------------------
(***************************************************************************)
(* State-machine model of physsim-viz (src/physsim-viz-rust/src/lib.rs):   *)
(* the Runner constructor, the two interval callbacks (physics_step and    *)
(* draw), the keydown / keyup closures, Drop for Runner, and the host      *)
(* (browser event loop, keyboard, WebGL2 context) they run against.        *)
(*                                                                         *)
(* Numbers.  TLC's integers are 32 bits wide, so the f32 values of the     *)
(* code are held as fixed-point integers on three grids:                   *)
(*   - the camera position, the camera speeds and dt, in units of 2^-30    *)
(*     (Fine): every f32 in [2^-7, 2) is a whole number of such units;     *)
(*   - the rigid body's vectors and all vertex data (coordinates and       *)
(*     colours), in units of 2^-28 (Unit), which reaches the 5.5 of the    *)
(*     world-axis arrows;                                                  *)
(*   - rotation-matrix entries, in units of 2^-15 (RotOne).                *)
(* The sum of two values of a grid is rounded to the nearest f32 by        *)
(* F32Round, which is the f32 addition of the code bit for bit.  Products  *)
(* with a rotation entry are rounded to the grid, which approximates the   *)
(* f32 products of the code to about 3e-5; they are exact when the         *)
(* rotation is the identity.                                               *)
(***************************************************************************)
EXTENDS Integers, Sequences, FiniteSets, TLC

\* ------------------------------------------------------------ constants
PHYSICS_INTERVAL == 10
DRAW_INTERVAL == 100

\* The f32 literal 0.001 in units of 2^-33 (0.001 * 2^33 = 8589934.59).
F32_MILLI == 8589935

\* i32 range of RunnerState::counter.
I32_MAX == 2147483647
I32_MIN == (0 - I32_MAX) - 1

\* ------------------------------------------------------------ bounds
MaxEvents == 2
MaxTicks == 2
MaxDraws == 1
MaxCalls == 1

\* ------------------------------------------------------------ numbers
Fine == 2^30
Unit == 2^28
RotOne == 2^15

Abs(n) == IF n < 0 THEN 0 - n ELSE n
Sgn(n) == IF n < 0 THEN 0 - 1 ELSE IF n > 0 THEN 1 ELSE 0

\* n / q rounded to the nearest integer, ties to even (q > 0).
RoundDiv(n, q) ==
    LET a == Abs(n)
        f == a \div q
        r == a % q
        m == IF 2 * r < q THEN f
             ELSE IF 2 * r > q THEN f + 1
             ELSE IF f % 2 = 0 THEN f ELSE f + 1
    IN  Sgn(n) * m

\* Spacing of the f32 grid at magnitude a, in fine units (24-bit significand).
RECURSIVE UlpAbove(_, _)
UlpAbove(a, q) == IF a \div 2^24 < q THEN q ELSE UlpAbove(a, 2 * q)

\* An exact sum or product rounded to the nearest f32 (ties to even).
F32Round(n) == LET q == UlpAbove(Abs(n), 1) IN q * RoundDiv(n, q)

F32Add(a, b) == F32Round(a + b)

\* Product of two fine values, |a|, |b| <= 1.0, by 15-bit limbs so that no
\* intermediate exceeds 2^31.
FMul(a, b) ==
    LET x == Abs(a)
        y == Abs(b)
        xh == x \div RotOne
        xl == x % RotOne
        yh == y \div RotOne
        yl == y % RotOne
        p == xh * yh + RoundDiv(xh * yl + xl * yh + RoundDiv(xl * yl, RotOne), RotOne)
    IN  Sgn(a) * Sgn(b) * p

\* Rotation entry r (units 2^-15) times fine value d: exact r*d/2^15 up to
\* the rounding of the low limb.
MulRot(r, d) ==
    LET y == Abs(d)
        x == Abs(r)
    IN  Sgn(r) * Sgn(d) * (x * (y \div RotOne) + RoundDiv(x * (y % RotOne), RotOne))

\* Product of two rotation entries.
RMul(a, b) == RoundDiv(a * b, RotOne)

\* A Fine value, and a Unit value, on the rotation grid.
ToRot(d) == RoundDiv(d, Fine \div RotOne)
UnitToRot(d) == RoundDiv(d, Unit \div RotOne)

RECURSIVE Newton(_, _)
Newton(n, x) == LET y == (x + n \div x) \div 2 IN IF y >= x THEN x ELSE Newton(n, y)
ISqrt(n) == IF n = 0 THEN 0 ELSE Newton(n, n)

\* ------------------------------------------------------------ linear algebra
\* Vector3 = <<x, y, z>> (fine units); Matrix3 / Rotation3 = three rows of three
\* entries (units 2^-15).
Zero3 == <<0, 0, 0>>
Identity3 == << <<RotOne, 0, 0>>, <<0, RotOne, 0>>, <<0, 0, RotOne>> >>

VecAdd(a, b) == [i \in 1..3 |-> F32Add(a[i], b[i])]

\* Matrix3 * Vector3.
MatVec(m, v) ==
    [i \in 1..3 |-> MulRot(m[i][1], v[1]) + MulRot(m[i][2], v[2]) + MulRot(m[i][3], v[3])]

\* Matrix3 * Matrix3.
MatMul(a, b) ==
    [i \in 1..3 |-> [j \in 1..3 |->
        RMul(a[i][1], b[1][j]) + RMul(a[i][2], b[2][j]) + RMul(a[i][3], b[3][j])]]

Transpose(m) == [i \in 1..3 |-> [j \in 1..3 |-> m[j][i]]]

\* sin and cos of a small angle x (units 2^-15) by their Taylor polynomials.
SinR(x) == x - RoundDiv(RMul(RMul(x, x), x), 6)
CosR(x) == (RotOne - RoundDiv(x * x, 2 * RotOne)) + RoundDiv(RMul(RMul(x, x), RMul(x, x)), 24)

\* nalgebra::Rotation3::new(axisangle): the rotation about axisangle / |axisangle|
\* by |axisangle| radians (Rodrigues' formula); the identity for the zero vector.
\* The axis-angle vector v is given on the rotation grid.
Rotation3New(v) ==
    LET angle == ISqrt(v[1] * v[1] + v[2] * v[2] + v[3] * v[3])
    IN  IF angle = 0 THEN Identity3
        ELSE LET u == [i \in 1..3 |-> RoundDiv(v[i] * RotOne, angle)]
                 s == SinR(angle)
                 c == CosR(angle)
                 k == RotOne - c
                 sq(i) == RMul(u[i], u[i])
                 pr(i, j) == RMul(RMul(u[i], u[j]), k)
                 dg(i) == sq(i) + RMul(RotOne - sq(i), c)
             IN  << <<dg(1), pr(1, 2) - RMul(u[3], s), pr(1, 3) + RMul(u[2], s)>>,
                    <<pr(1, 2) + RMul(u[3], s), dg(2), pr(2, 3) - RMul(u[1], s)>>,
                    <<pr(1, 3) - RMul(u[2], s), pr(2, 3) + RMul(u[1], s), dg(3)>> >>

\* ------------------------------------------------------------ keys
\* The twelve KeysPressed slots, in the order physics_step tests them.
Slots == <<"w", "s", "a", "d", "q", "e", "i", "k", "j", "l", "u", "o">>
SlotSet == {Slots[n] : n \in 1..Len(Slots)}

\* Key codes the host delivers: the twelve control keys, "KeyV", and one code
\* the closures do not recognise.
ControlCodes ==
    {"KeyW", "KeyS", "KeyA", "KeyD", "KeyQ", "KeyE",
     "KeyI", "KeyK", "KeyJ", "KeyL", "KeyU", "KeyO"}
Codes == ControlCodes \cup {"KeyV", "KeyX"}

\* The slot a match arm of the closures assigns.
SlotOf(code) ==
    CASE code = "KeyW" -> "w" [] code = "KeyS" -> "s" [] code = "KeyA" -> "a"
      [] code = "KeyD" -> "d" [] code = "KeyQ" -> "q" [] code = "KeyE" -> "e"
      [] code = "KeyI" -> "i" [] code = "KeyK" -> "k" [] code = "KeyJ" -> "j"
      [] code = "KeyL" -> "l" [] code = "KeyU" -> "u" [] code = "KeyO" -> "o"
      [] OTHER -> "none"

KeysPressedNew == [k \in SlotSet |-> FALSE]

\* ------------------------------------------------------------ camera
\* cam_linear_speed = 0.001 * PHYSICS_INTERVAL in f32: the product of the f32
\* literal by 10.0, rounded to the f32 grid (2^-30 near 0.01).
cam_linear_speed == RoundDiv(F32_MILLI * PHYSICS_INTERVAL, 8)
cam_angular_sleep == RoundDiv(F32_MILLI * PHYSICS_INTERVAL, 8)

\* Variants of the two tables below: d displacing along the view axis, and l
\* turning the way j does.
KeyTranslationDAlongView(k) ==
    CASE k = "w" -> <<0, 0, 0 - cam_linear_speed>>
      [] k = "s" -> <<0, 0, cam_linear_speed>>
      [] k = "a" -> <<0 - cam_linear_speed, 0, 0>>
      [] k = "d" -> <<0, 0, cam_linear_speed>>
      [] k = "q" -> <<0, 0 - cam_linear_speed, 0>>
      [] k = "e" -> <<0, cam_linear_speed, 0>>

KeyRotationLAsJ(k) ==
    CASE k = "i" -> <<cam_angular_sleep, 0, 0>>
      [] k = "k" -> <<0 - cam_angular_sleep, 0, 0>>
      [] k = "j" -> <<0, cam_angular_sleep, 0>>
      [] k = "l" -> <<0, cam_angular_sleep, 0>>
      [] k = "u" -> <<0, 0, cam_angular_sleep>>
      [] k = "o" -> <<0, 0, 0 - cam_angular_sleep>>

\* The displacement physics_step multiplies by the camera rotation for a
\* translation key, and the axis-angle vector it turns by for a rotation key.
KeyTranslation(k) ==
    CASE k = "w" -> <<0, 0, 0 - cam_linear_speed>>
      [] k = "s" -> <<0, 0, cam_linear_speed>>
      [] k = "a" -> <<0 - cam_linear_speed, 0, 0>>
      [] k = "d" -> <<cam_linear_speed, 0, 0>>
      [] k = "q" -> <<0, 0 - cam_linear_speed, 0>>
      [] k = "e" -> <<0, cam_linear_speed, 0>>

KeyRotation(k) ==
    CASE k = "i" -> <<cam_angular_sleep, 0, 0>>
      [] k = "k" -> <<0 - cam_angular_sleep, 0, 0>>
      [] k = "j" -> <<0, cam_angular_sleep, 0>>
      [] k = "l" -> <<0, 0 - cam_angular_sleep, 0>>
      [] k = "u" -> <<0, 0, cam_angular_sleep>>
      [] k = "o" -> <<0, 0, 0 - cam_angular_sleep>>

TranslationSlots == {"w", "s", "a", "d", "q", "e"}

\* One `if state_locked.keys_pressed.<k>` block of physics_step applied to the
\* camera cam = [pos, rot].  The homogeneous 4x4 of a rotation has a zero
\* translation column, so rows 0..2 of its product with (d, 1) are rot * d.
ApplyKey(cam, k) ==
    IF k \in TranslationSlots
    THEN [cam EXCEPT !.pos = VecAdd(cam.pos, MatVec(cam.rot, KeyTranslation(k)))]
    ELSE [cam EXCEPT !.rot =
              MatMul(cam.rot, Rotation3New([i \in 1..3 |-> ToRot(KeyRotation(k)[i])]))]

\* The camera after the first n of the twelve blocks, taken in source order,
\* each guarded by its slot.
RECURSIVE CameraMovementUpTo(_, _, _)
CameraMovementUpTo(cam, keys, n) ==
    IF n = 0 THEN cam
    ELSE LET before == CameraMovementUpTo(cam, keys, n - 1)
         IN  IF keys[Slots[n]] THEN ApplyKey(before, Slots[n]) ELSE before

CameraMovement(cam, keys) == CameraMovementUpTo(cam, keys, Len(Slots))


\* ------------------------------------------------------------ rigid body
\* RunnerState::new's rigid body: pos 0, lin_vel (0.1, 0, 0), rot_mat identity,
\* ang_mom (0.5, 0, 0), inv_ine identity.  0.1 as f32 is 13421773 * 2^-27.
F32_TENTH == 13421773 * (Unit \div 2^27)
RigidBodyNew ==
    [pos |-> Zero3,
     lin_vel |-> <<F32_TENTH, 0, 0>>,
     rot_mat |-> Identity3,
     ang_mom |-> <<Unit \div 2, 0, 0>>,
     inv_ine |-> Identity3]

\* dt = PHYSICS_INTERVAL / 1000.0 in f32 (Fine units; 0.01 * 2^30 = 10737418.24).
PhysicsDt == RoundDiv(PHYSICS_INTERVAL * (Fine \div 8), 1000 \div 8)

Column(m, j) == [i \in 1..3 |-> m[i][j]]
Dot(a, b) == RMul(a[1], b[1]) + RMul(a[2], b[2]) + RMul(a[3], b[3])
Normalize(a) ==
    LET n == ISqrt(a[1] * a[1] + a[2] * a[2] + a[3] * a[3])
    IN  [i \in 1..3 |-> RoundDiv(a[i] * RotOne, n)]
Minus(a, b, t) == [i \in 1..3 |-> a[i] - RMul(t, b[i])]

\* Modified Gram-Schmidt across the three columns.
Orthonormalize(m) ==
    LET c1 == Normalize(Column(m, 1))
        c2 == Normalize(Minus(Column(m, 2), c1, Dot(c1, Column(m, 2))))
        d3 == Minus(Column(m, 3), c1, Dot(c1, Column(m, 3)))
        c3 == Normalize(Minus(d3, c2, Dot(c2, d3)))
    IN  [i \in 1..3 |-> <<c1[i], c2[i], c3[i]>>]

\* physsim::RigidBody::step_sim(dt): the free motion of the body over dt.
StepSim(b, dt) ==
    LET inv_world == MatMul(MatMul(b.rot_mat, b.inv_ine), Transpose(b.rot_mat))
        omega == MatVec(inv_world, b.ang_mom)
        turn == [i \in 1..3 |-> UnitToRot(FMul(dt, omega[i]))]
    IN  [b EXCEPT !.pos = VecAdd(b.pos, [i \in 1..3 |-> FMul(dt, b.lin_vel[i])]),
                  !.rot_mat = Orthonormalize(MatMul(Rotation3New(turn), b.rot_mat))]

\* ------------------------------------------------------------ geometry
Half == Unit \div 2

\* v1..v8 of cuboid_to_vertices: rot_mat * (+-0.5, +-0.5, +-0.5) + pos.
CornerSigns ==
    << <<0 - 1, 0 - 1, 0 - 1>>, <<0 - 1, 0 - 1, 1>>, <<0 - 1, 1, 0 - 1>>, <<0 - 1, 1, 1>>,
       <<1, 0 - 1, 0 - 1>>, <<1, 0 - 1, 1>>, <<1, 1, 0 - 1>>, <<1, 1, 1>> >>
Corner(b, n) ==
    VecAdd(MatVec(b.rot_mat, [i \in 1..3 |-> CornerSigns[n][i] * Half]), b.pos)

\* The edge list with E1 emitted a second time in the place of E12.
CuboidEdgesRepeated ==
    <<1, 2,  1, 3,  3, 4,  2, 4,  5, 6,  5, 7,  7, 8,  6, 8,  1, 5,  3, 7,  4, 8,  1, 2>>

\* E1..E12 and F1..F12: the corners add_vert is called with, in order.
CuboidEdges ==
    <<1, 2,  1, 3,  3, 4,  2, 4,  5, 6,  5, 7,  7, 8,  6, 8,  1, 5,  3, 7,  4, 8,  2, 6>>
CuboidFaces ==
    <<1, 2, 3,  2, 3, 4,  1, 3, 7,  1, 5, 7,  1, 2, 6,  1, 5, 6,
      5, 6, 7,  6, 7, 8,  2, 4, 8,  2, 6, 8,  3, 4, 8,  3, 7, 8>>

\* The floats add_vert pushes for the points pts, each followed by extra.
Floats(pts, extra) ==
    LET w == 3 + Len(extra)
    IN  [n \in 1..(w * Len(pts)) |-> (pts[((n - 1) \div w) + 1] \o extra)[((n - 1) % w) + 1]]

\* A cuboid emitter that starts from an empty vector.
cuboid_to_vertices_cleared(vertices, b, wf) ==
    LET v == [n \in 1..8 |-> Corner(b, n)]
        order == IF wf THEN CuboidEdges ELSE CuboidFaces
    IN  Floats([n \in 1..Len(order) |-> v[order[n]]], <<>>)

cuboid_to_vertices(vertices, b, wf) ==
    LET v == <<Corner(b, 1), Corner(b, 2), Corner(b, 3), Corner(b, 4),
               Corner(b, 5), Corner(b, 6), Corner(b, 7), Corner(b, 8)>>
        order == IF wf THEN CuboidEdges ELSE CuboidFaces
    IN  vertices \o Floats([n \in 1..Len(order) |-> v[order[n]]], <<>>)

\* vector_to_vertices: the shaft pos -> pos + v, then the six tip legs, each
\* from pos + v; every add_vert pushes x, y, z and then r, g, b when a colour is
\* given (color is <<>> for None, <<r, g, b>> for Some).
TipOffsets(tip_size) ==
    << <<tip_size, 0, 0>>, <<0 - tip_size, 0, 0>>, <<0, tip_size, 0>>,
       <<0, 0 - tip_size, 0>>, <<0, 0, tip_size>>, <<0, 0, 0 - tip_size>> >>

\* An arrow emitter that colours the shaft only.
vector_to_vertices_plain_tip(vertices, pos, v, color, tip_size) ==
    LET head == VecAdd(pos, v)
        tips == TipOffsets(tip_size)
        legs == <<head, VecAdd(head, tips[1]), head, VecAdd(head, tips[2]),
                  head, VecAdd(head, tips[3]), head, VecAdd(head, tips[4]),
                  head, VecAdd(head, tips[5]), head, VecAdd(head, tips[6])>>
    IN  vertices \o Floats(<<pos, head>>, color) \o Floats(legs, <<>>)

vector_to_vertices(vertices, pos, v, color, tip_size) ==
    LET head == VecAdd(pos, v)
        tips == TipOffsets(tip_size)
        pts == <<pos, head,
                 head, VecAdd(head, tips[1]), head, VecAdd(head, tips[2]),
                 head, VecAdd(head, tips[3]), head, VecAdd(head, tips[4]),
                 head, VecAdd(head, tips[5]), head, VecAdd(head, tips[6])>>
    IN  vertices \o Floats(pts, color)

\* The colored geometry draw builds: the three world axes (length 5, tip 0.5),
\* then lin_vel in yellow and ang_mom in cyan at the body (tip 0.1).
coords_system_axes_sizes == 5 * Unit
ColoredGeometry(b) ==
    LET a1 == vector_to_vertices(<<>>, Zero3, <<coords_system_axes_sizes, 0, 0>>,
                                 <<Unit, 0, 0>>, Half)
        a2 == vector_to_vertices(a1, Zero3, <<0, coords_system_axes_sizes, 0>>,
                                 <<0, Unit, 0>>, Half)
        a3 == vector_to_vertices(a2, Zero3, <<0, 0, coords_system_axes_sizes>>,
                                 <<0, 0, Unit>>, Half)
        a4 == vector_to_vertices(a3, b.pos, b.lin_vel, <<Unit, Unit, 0>>, F32_TENTH)
    IN  vector_to_vertices(a4, b.pos, b.ang_mom, <<0, Unit, Unit>>, F32_TENTH)


\* ------------------------------------------------------------ state
VARIABLES
    pc,            \* where the running entry point stands; "idle" between entry points
    runner,        \* "new" (Runner::new running), "live", "err", "panic", "dropped"
    fail_at,       \* the host call that fails during Runner::new, or "none"
    closures,      \* the wasm closures that exist (a dropped one throws when called)
    timers,        \* interval timers registered with the window
    listeners,     \* event listeners registered with the document
    lock,          \* the RwLock around RunnerState: [readers, writer]
    counter, rigid_body, wireframe, keys_pressed, camera_pos, camera_rot,
    ev,            \* ev.code() of the key event being handled
    vert_count,    \* draw's local vert_count_plain / vert_count_colored
    gl,            \* the WebGL2 context
    held,          \* keys physically held down
    host,          \* the host's schedule: free, or a script of inputs to deliver
    n_events, n_ticks, n_draws,   \* entry points delivered / completed
    v_presses,     \* presses of V (a press is a key going down, not a repeat)
    last_event,    \* per control key: the most recent event delivered for it
    tick_log,      \* what the current physics tick has done so far
    step_sim_calls,\* the dt of every step_sim call
    dead_calls,    \* callbacks the host invoked after their closure was dropped
    vertices,      \* a caller-owned Vec<f32> handed to the geometry functions
    call           \* the geometry calls made on vertices, latest last

rstate == <<counter, rigid_body, wireframe, keys_pressed, camera_pos, camera_rot>>
hostv == <<closures, timers, listeners, held, host>>
ghosts == <<n_events, n_ticks, n_draws, v_presses, last_event, tick_log,
            step_sim_calls, dead_calls>>
geom == <<vertices, call>>
vars == <<pc, runner, fail_at, lock, ev, vert_count, gl, rstate, hostv, ghosts, geom>>

\* ------------------------------------------------------------ RwLock
LockNew == [readers |-> 0, writer |-> FALSE]
LockFree(l) == l.readers = 0 /\ ~l.writer
WriteGuard(l) == [l EXCEPT !.writer = TRUE]
ReadGuard(l) == [l EXCEPT !.readers = @ + 1]
\* A write guard that outlives its scope.
KeepWriteGuard(l) == l
DropWriteGuard(l) == [l EXCEPT !.writer = FALSE]
DropReadGuard(l) == [l EXCEPT !.readers = @ - 1]

\* ------------------------------------------------------------ WebGL2
Black == <<0, 0, 0, 1>>
GlNew ==
    [created |-> {},
     program |-> "none",
     vao |-> "none",
     array_buffer |-> "none",
     attribs |-> [v \in {"plain", "colored"} |-> [buffer |-> "none", floats |-> 0]],
     vbo_data |-> <<>>,
     clear_color |-> <<0, 0, 0, 0>>,
     frame |-> [clear |-> <<>>, draws |-> <<>>]]

\* vertex_attrib_pointer on the bound VAO: the attributes read the buffer bound
\* to ARRAY_BUFFER at the time of the call, with the given stride in floats.
GlAttribPointer(g, floats) ==
    [g EXCEPT !.attribs[g.vao] = [buffer |-> g.array_buffer, floats |-> floats]]

\* buffer_data on ARRAY_BUFFER: replaces the store of the buffer bound there.
GlBufferData(g, data) ==
    IF g.array_buffer = "vbo" THEN [g EXCEPT !.vbo_data = data] ELSE g

\* clear(COLOR_BUFFER_BIT): the frame is the clear colour and nothing else.
GlClear(g) == [g EXCEPT !.frame = [clear |-> g.clear_color, draws |-> <<>>]]

\* draw_arrays(mode, 0, count): the bound VAO's attributes fetch count vertices
\* from the buffer they were pointed at.
GlDrawArrays(g, mode, count) ==
    LET a == g.attribs[g.vao]
        store == IF a.buffer = "vbo" THEN g.vbo_data ELSE <<>>
        need == count * a.floats
        d == [program |-> g.program,
              mode |-> mode,
              count |-> count,
              floats |-> a.floats,
              data |-> IF need <= Len(store) THEN SubSeq(store, 1, need) ELSE <<>>]
    IN  [g EXCEPT !.frame.draws = Append(@, d)]


\* ------------------------------------------------------------ Runner::new
\* The host calls of Runner::new that can fail, in source order.
NewStages ==
    <<"window", "document", "canvas", "canvas_type", "context", "vbo",
      "vs_plain", "fs_plain", "program_plain", "vao_plain",
      "vs_colored", "fs_colored", "program_colored", "vao_colored",
      "draw_interval", "physics_interval", "keydown_listener", "keyup_listener">>
StageSet == {NewStages[n] : n \in 1..Len(NewStages)}

\* The element after p in the sequence order.
After(order, p) ==
    LET i == CHOOSE n \in 1..Len(order) : order[n] = p IN order[i + 1]

\* How Runner::new leaves when the stage's host call fails: `?` returns Err to
\* the caller; unwrap() / expect() panic, which traps the wasm instance.
StageFailure(stage) ==
    IF stage \in {"window", "document", "canvas", "canvas_type", "context",
                  "keydown_listener", "keyup_listener"}
    THEN "panic" ELSE "err"

\* What a successful stage does to the WebGL2 context.
StageGl(g, stage) ==
    CASE stage \in {"vbo", "vs_plain", "fs_plain", "vs_colored", "fs_colored"} ->
             [g EXCEPT !.created = @ \cup {stage}]
      [] stage = "program_plain" ->
             [g EXCEPT !.created = @ \cup {stage}, !.program = "plain"]
      [] stage = "program_colored" ->
             [g EXCEPT !.created = @ \cup {stage}, !.program = "colored"]
      [] stage = "vao_plain" ->
             GlAttribPointer([g EXCEPT !.created = @ \cup {stage}, !.vao = "plain",
                                       !.array_buffer = "vbo"], 3)
      [] stage = "vao_colored" ->
             GlAttribPointer([g EXCEPT !.created = @ \cup {stage}, !.vao = "colored",
                                       !.array_buffer = "vbo"], 6)
      [] OTHER -> g

\* The closure, timer and listener a successful stage creates and registers.
StageClosure(stage) ==
    CASE stage = "draw_interval" -> {"draw"}
      [] stage = "physics_interval" -> {"physics"}
      [] stage = "keydown_listener" -> {"keydown"}
      [] stage = "keyup_listener" -> {"keyup"}
      [] OTHER -> {}
StageTimer(stage) == StageClosure(stage) \cap {"draw", "physics"}
StageListener(stage) == StageClosure(stage) \cap {"keydown", "keyup"}

RECURSIVE GlAfterStages(_, _)
GlAfterStages(g, n) ==
    IF n > Len(NewStages) THEN g ELSE GlAfterStages(StageGl(g, NewStages[n]), n + 1)

FreeHost == [mode |-> "free", todo |-> <<>>]

\* The value RunnerState::new gives the state at line 211, the counter aside,
\* with no callback yet delivered.
Blank ==
    /\ lock = LockNew
    /\ rigid_body = RigidBodyNew
    /\ wireframe = FALSE
    /\ keys_pressed = KeysPressedNew
    /\ camera_pos = Zero3
    /\ camera_rot = Identity3
    /\ ev = "none" /\ vert_count = 0
    /\ held = {}
    /\ n_events = 0 /\ n_ticks = 0 /\ n_draws = 0 /\ v_presses = 0
    /\ last_event = [k \in SlotSet |-> "none"]
    /\ tick_log = <<>>
    /\ step_sim_calls = [n |-> 0, dts |-> {}]
    /\ dead_calls = {}

\* No geometry call has been made on the caller-owned vector.
NoGeometry == vertices = <<>> /\ call = <<>>

\* Before Runner::new: nothing is registered, and any one host call may fail.
Init ==
    /\ Blank
    /\ NoGeometry
    /\ counter = 0
    /\ closures = {} /\ timers = {} /\ listeners = {}
    /\ pc = NewStages[1]
    /\ runner = "new"
    /\ fail_at \in StageSet \cup {"none"}
    /\ gl = GlNew
    /\ host = FreeHost

\* The state Runner::new returns Ok in: every stage has succeeded.
Constructed ==
    /\ Blank
    /\ closures = {"draw", "physics", "keydown", "keyup"}
    /\ timers = {"draw", "physics"}
    /\ listeners = {"keydown", "keyup"}
    /\ pc = "idle"
    /\ runner = "live"
    /\ fail_at = "none"
    /\ gl = GlAfterStages(GlNew, 1)

\* One host call of Runner::new and what follows it up to the next one.
RunnerNew ==
    /\ runner = "new"
    /\ pc \in StageSet
    /\ IF fail_at = pc
       THEN /\ runner' = StageFailure(pc)
            /\ pc' = IF StageFailure(pc) = "panic" THEN "aborted" ELSE "idle"
            /\ closures' = IF StageFailure(pc) = "panic" THEN closures ELSE {}
            /\ UNCHANGED <<gl, timers, listeners>>
       ELSE /\ gl' = StageGl(gl, pc)
            /\ closures' = closures \cup StageClosure(pc)
            /\ timers' = timers \cup StageTimer(pc)
            /\ listeners' = listeners \cup StageListener(pc)
            /\ IF pc = NewStages[Len(NewStages)]
               THEN runner' = "live" /\ pc' = "idle"
               ELSE runner' = runner /\ pc' = After(NewStages, pc)
    /\ UNCHANGED <<fail_at, lock, ev, vert_count, rstate, held, host, ghosts>>
    /\ UNCHANGED geom

\* Drop for Runner: clear_interval(draw_interval_token); then the fields are
\* dropped, the four closures among them.
RunnerDrop ==
    /\ runner = "live"
    /\ pc = "idle"
    /\ host.mode = "free"
    /\ runner' = "dropped"
    /\ timers' = timers \ {"draw"}
    /\ closures' = {}
    /\ UNCHANGED <<pc, fail_at, lock, ev, vert_count, gl, rstate, listeners, held, host,
                   ghosts>>
    /\ UNCHANGED geom

\* ------------------------------------------------------------ host schedule
\* Whether the host may deliver the input now: a free host within the bounds,
\* a scripted host the head of its script.
Deliverable(op, code) ==
    IF host.mode = "free"
    THEN CASE op = "tick" -> n_ticks < MaxTicks
           [] op = "draw" -> n_draws < MaxDraws
           [] OTHER -> n_events < MaxEvents
    ELSE /\ host.todo # <<>>
         /\ Head(host.todo).op = op
         /\ Head(host.todo).code = code

Delivered ==
    IF host.mode = "free" THEN host
    ELSE [host EXCEPT !.todo =
              IF Head(@).n > 1 THEN <<[Head(@) EXCEPT !.n = @ - 1]>> \o Tail(@)
              ELSE Tail(@)]


\* ------------------------------------------------------------ key closures
\* The match of keydown_closure on ev.code(), on st = [wireframe, keys_pressed].
keydown_closure(st, code) ==
    IF code = "KeyV" THEN [st EXCEPT !.wireframe = ~st.wireframe]
    ELSE IF code \in ControlCodes THEN [st EXCEPT !.keys_pressed[SlotOf(code)] = TRUE]
    ELSE st

\* A keyup handler that leaves every slot as it was.
keyup_closure_ignoring(st, code) == st

\* The match of keyup_closure.
keyup_closure(st, code) ==
    IF code \in ControlCodes THEN [st EXCEPT !.keys_pressed[SlotOf(code)] = FALSE]
    ELSE st

\* The document dispatches a keydown / keyup event to its listener: the closure
\* takes the write guard, or, if it was dropped, the call throws.
Dispatch(kind, code) ==
    /\ kind \in listeners
    /\ n_events' = n_events + 1
    /\ last_event' = IF code \in ControlCodes
                     THEN [last_event EXCEPT ![SlotOf(code)] = kind]
                     ELSE last_event
    /\ IF kind \in closures
       THEN /\ LockFree(lock)
            /\ lock' = WriteGuard(lock)
            /\ ev' = code
            /\ pc' = kind
            /\ dead_calls' = dead_calls
       ELSE /\ dead_calls' = dead_calls \cup {kind}
            /\ UNCHANGED <<lock, ev, pc>>
    /\ UNCHANGED <<runner, fail_at, vert_count, gl, rstate, closures, timers, listeners,
                   n_ticks, n_draws, tick_log, step_sim_calls>>
    /\ UNCHANGED geom

\* A key goes down.
KeyPress(code) ==
    /\ pc = "idle"
    /\ code \notin held
    /\ Deliverable("down", code)
    /\ host' = Delivered
    /\ held' = held \cup {code}
    /\ v_presses' = IF code = "KeyV" THEN v_presses + 1 ELSE v_presses
    /\ Dispatch("keydown", code)

\* A held key auto-repeats: the host sends another keydown (KeyboardEvent.repeat).
KeyRepeat(code) ==
    /\ pc = "idle"
    /\ code \in held
    /\ Deliverable("repeat", code)
    /\ host' = Delivered
    /\ UNCHANGED <<held, v_presses>>
    /\ Dispatch("keydown", code)

\* A held key goes up.
KeyRelease(code) ==
    /\ pc = "idle"
    /\ code \in held
    /\ Deliverable("up", code)
    /\ host' = Delivered
    /\ held' = held \ {code}
    /\ UNCHANGED v_presses
    /\ Dispatch("keyup", code)

KeyDownMatch ==
    /\ pc = "keydown"
    /\ LET st == keydown_closure([wireframe |-> wireframe, keys_pressed |-> keys_pressed], ev)
       IN  wireframe' = st.wireframe /\ keys_pressed' = st.keys_pressed
    /\ pc' = "keydown_ret"
    /\ UNCHANGED <<runner, fail_at, lock, ev, vert_count, gl, counter, rigid_body,
                   camera_pos, camera_rot, hostv, ghosts>>
    /\ UNCHANGED geom

KeyUpMatch ==
    /\ pc = "keyup"
    /\ LET st == keyup_closure([wireframe |-> wireframe, keys_pressed |-> keys_pressed], ev)
       IN  wireframe' = st.wireframe /\ keys_pressed' = st.keys_pressed
    /\ pc' = "keyup_ret"
    /\ UNCHANGED <<runner, fail_at, lock, ev, vert_count, gl, counter, rigid_body,
                   camera_pos, camera_rot, hostv, ghosts>>
    /\ UNCHANGED geom

\* The closure returns: state_locked goes out of scope.
KeyReturn ==
    /\ pc \in {"keydown_ret", "keyup_ret"}
    /\ lock' = DropWriteGuard(lock)
    /\ ev' = "none"
    /\ pc' = "idle"
    /\ UNCHANGED <<runner, fail_at, vert_count, gl, rstate, hostv, ghosts>>
    /\ UNCHANGED geom

\* ------------------------------------------------------------ physics_step
\* physics_step with the body integrated ahead of the camera blocks.
physics_step_body_first == <<"phys_counter", "phys_step_sim", "phys_camera", "phys_ret">>

\* The statements of physics_step in source order: the camera blocks, the
\* counter, step_sim, and the end of the function.
physics_step == <<"phys_camera", "phys_counter", "phys_step_sim", "phys_ret">>

\* The physics interval fires.
PhysicsTimer ==
    /\ pc = "idle"
    /\ "physics" \in timers
    /\ Deliverable("tick", "none")
    /\ host' = Delivered
    /\ IF "physics" \in closures
       THEN /\ LockFree(lock)
            /\ lock' = WriteGuard(lock)
            /\ pc' = physics_step[1]
            /\ tick_log' = <<>>
            /\ dead_calls' = dead_calls
       ELSE /\ dead_calls' = dead_calls \cup {"physics"}
            /\ UNCHANGED <<lock, pc, tick_log>>
    /\ UNCHANGED <<runner, fail_at, ev, vert_count, gl, rstate, closures, timers,
                   listeners, held, n_events, n_ticks, n_draws, v_presses, last_event,
                   step_sim_calls>>
    /\ UNCHANGED geom

PhysCamera ==
    /\ pc = "phys_camera"
    /\ LET cam == CameraMovement([pos |-> camera_pos, rot |-> camera_rot], keys_pressed)
       IN  camera_pos' = cam.pos /\ camera_rot' = cam.rot
    /\ tick_log' = Append(tick_log, "camera")
    /\ pc' = After(physics_step, pc)
    /\ UNCHANGED <<runner, fail_at, lock, ev, vert_count, gl, counter, rigid_body,
                   wireframe, keys_pressed, hostv, n_events, n_ticks, n_draws, v_presses,
                   last_event, step_sim_calls, dead_calls>>
    /\ UNCHANGED geom

\* counter += 1 on an i32: at i32::MAX a build with overflow checks panics (the
\* instance traps, the guard is never dropped), a build without them wraps.
PhysCounter ==
    /\ pc = "phys_counter"
    /\ IF counter < I32_MAX
       THEN counter' = counter + 1 /\ pc' = After(physics_step, pc)
       ELSE \E overflow_checks \in BOOLEAN :
                IF overflow_checks
                THEN counter' = counter /\ pc' = "aborted"
                ELSE counter' = I32_MIN /\ pc' = After(physics_step, pc)
    /\ tick_log' = Append(tick_log, "counter")
    /\ UNCHANGED <<runner, fail_at, lock, ev, vert_count, gl, rigid_body, wireframe,
                   keys_pressed, camera_pos, camera_rot, hostv, n_events, n_ticks,
                   n_draws, v_presses, last_event, step_sim_calls, dead_calls>>
    /\ UNCHANGED geom

PhysStepSim ==
    /\ pc = "phys_step_sim"
    /\ rigid_body' = StepSim(rigid_body, PhysicsDt)
    /\ step_sim_calls' = [n |-> step_sim_calls.n + 1,
                          dts |-> step_sim_calls.dts \cup {PhysicsDt}]
    /\ tick_log' = Append(tick_log, "step_sim")
    /\ pc' = After(physics_step, pc)
    /\ UNCHANGED <<runner, fail_at, lock, ev, vert_count, gl, counter, wireframe,
                   keys_pressed, camera_pos, camera_rot, hostv, n_events, n_ticks,
                   n_draws, v_presses, last_event, dead_calls>>
    /\ UNCHANGED geom

PhysReturn ==
    /\ pc = "phys_ret"
    /\ lock' = DropWriteGuard(lock)
    /\ n_ticks' = n_ticks + 1
    /\ pc' = "idle"
    /\ UNCHANGED <<runner, fail_at, ev, vert_count, gl, rstate, hostv, n_events, n_draws,
                   v_presses, last_event, tick_log, step_sim_calls, dead_calls>>
    /\ UNCHANGED geom

\* ------------------------------------------------------------ draw
\* draw with the clear moved behind the body's draw call.
draw_clear_late ==
    <<"draw_use_plain", "draw_upload_plain", "draw_body", "draw_clear",
      "draw_use_colored", "draw_upload_colored", "draw_arrows", "draw_ret">>

\* The WebGL2 calls of draw in source order.
draw ==
    <<"draw_use_plain", "draw_upload_plain", "draw_clear", "draw_body",
      "draw_use_colored", "draw_upload_colored", "draw_arrows", "draw_ret">>

\* The draw interval fires.
DrawTimer ==
    /\ pc = "idle"
    /\ "draw" \in timers
    /\ Deliverable("draw", "none")
    /\ host' = Delivered
    /\ IF "draw" \in closures
       THEN /\ LockFree(lock)
            /\ lock' = ReadGuard(lock)
            /\ pc' = draw[1]
            /\ dead_calls' = dead_calls
       ELSE /\ dead_calls' = dead_calls \cup {"draw"}
            /\ UNCHANGED <<lock, pc>>
    /\ UNCHANGED <<runner, fail_at, ev, vert_count, gl, rstate, closures, timers,
                   listeners, held, n_events, n_ticks, n_draws, v_presses, last_event,
                   tick_log, step_sim_calls>>
    /\ UNCHANGED geom

\* What one WebGL2 step of draw does to the context and to draw's vertex count.
DrawStep(g, count, step, body, wf) ==
    CASE step = "draw_use_plain" ->
             [gl |-> [g EXCEPT !.program = "plain", !.vao = "plain"], count |-> count]
      [] step = "draw_upload_plain" ->
             LET vertices_plain == cuboid_to_vertices(<<>>, body, wf)
             IN  [gl |-> GlBufferData(g, vertices_plain),
                  count |-> Len(vertices_plain) \div 3]
      [] step = "draw_clear" ->
             [gl |-> GlClear([g EXCEPT !.clear_color = Black]), count |-> count]
      [] step = "draw_body" ->
             [gl |-> GlDrawArrays(g, IF wf THEN "LINES" ELSE "TRIANGLES", count),
              count |-> count]
      [] step = "draw_use_colored" ->
             [gl |-> [g EXCEPT !.program = "colored", !.vao = "colored"], count |-> count]
      [] step = "draw_upload_colored" ->
             LET vertices_colored == ColoredGeometry(body)
             IN  [gl |-> GlBufferData(g, vertices_colored),
                  count |-> Len(vertices_colored) \div 6]
      [] step = "draw_arrows" ->
             [gl |-> GlDrawArrays(g, "LINES", count), count |-> count]

\* A draw whose WebGL2 steps also count themselves in counter.
DrawGlCounting ==
    /\ pc \in {draw[n] : n \in 1..(Len(draw) - 1)}
    /\ LET r == DrawStep(gl, vert_count, pc, rigid_body, wireframe)
       IN  gl' = r.gl /\ vert_count' = r.count
    /\ pc' = After(draw, pc)
    /\ counter' = counter + 1
    /\ UNCHANGED <<runner, fail_at, lock, ev, rigid_body, wireframe, keys_pressed,
                   camera_pos, camera_rot, hostv, ghosts, geom>>

DrawGl ==
    /\ pc \in {draw[n] : n \in 1..(Len(draw) - 1)}
    /\ LET r == DrawStep(gl, vert_count, pc, rigid_body, wireframe)
       IN  gl' = r.gl /\ vert_count' = r.count
    /\ pc' = After(draw, pc)
    /\ UNCHANGED <<runner, fail_at, lock, ev, rstate, hostv, ghosts>>
    /\ UNCHANGED geom

DrawReturn ==
    /\ pc = "draw_ret"
    /\ lock' = DropReadGuard(lock)
    /\ vert_count' = 0
    /\ n_draws' = n_draws + 1
    /\ pc' = "idle"
    /\ UNCHANGED <<runner, fail_at, ev, gl, rstate, hostv, n_events, n_ticks, v_presses,
                   last_event, tick_log, step_sim_calls, dead_calls>>
    /\ UNCHANGED geom

\* ------------------------------------------------------------ specifications
EntryPoints ==
    \/ KeyDownMatch \/ KeyUpMatch \/ KeyReturn
    \/ PhysCamera \/ PhysCounter \/ PhysStepSim \/ PhysReturn

Next ==
    \/ RunnerNew
    \/ RunnerDrop
    \/ \E code \in Codes : KeyPress(code)
    \/ \E code \in Codes : KeyRepeat(code)
    \/ \E code \in Codes : KeyRelease(code)
    \/ PhysicsTimer
    \/ DrawTimer
    \/ DrawGl
    \/ DrawReturn
    \/ EntryPoints

Spec == Init /\ [][Next]_vars

\* What a live Runner does when only keys and the physics timer are at work.
NextLive ==
    \/ \E code \in Codes : KeyPress(code)
    \/ \E code \in Codes : KeyRelease(code)
    \/ PhysicsTimer
    \/ EntryPoints

\* Scripted runs from the default camera. The physics interval fires every
\* PHYSICS_INTERVAL ms, so a key held for t ms is held for t \div PHYSICS_INTERVAL
\* ticks.
Input(op, code, n) == [op |-> op, code |-> code, n |-> n]
StrafeScript ==
    <<Input("down", "KeyD", 1), Input("tick", "none", 1000 \div PHYSICS_INTERVAL)>>
YawScript ==
    <<Input("down", "KeyL", 1), Input("tick", "none", 1571 \div PHYSICS_INTERVAL),
      Input("up", "KeyL", 1),
      Input("down", "KeyW", 1), Input("tick", "none", 1000 \div PHYSICS_INTERVAL)>>

InitScenario ==
    /\ Constructed
    /\ NoGeometry
    /\ counter = 0
    /\ host \in {[mode |-> "strafe", todo |-> StrafeScript],
                 [mode |-> "yaw", todo |-> YawScript]}

SpecScenario == InitScenario /\ [][NextLive]_vars

\* A Runner that has been live for LongRunStart physics ticks. Nothing reads
\* counter, so the rest of the state is taken as construction left it; n_ticks
\* and step_sim_calls count from this state on.
LongRunStart == I32_MAX - 1
InitLongRun ==
    /\ Constructed
    /\ NoGeometry
    /\ counter = LongRunStart
    /\ host = FreeHost

SpecLongRun == InitLongRun /\ [][NextLive]_vars


\* ------------------------------------------------------------ geometry calls
\* The poses, vectors and earlier vector contents the geometry functions are
\* called with: the body at rest and displaced, unturned and turned; arrows
\* with and without a colour.
GeomPositions == {Zero3, <<F32_TENTH, 0, 0>>, <<0 - Unit, Half, 3>>}
GeomRotations ==
    {Identity3, StepSim(RigidBodyNew, PhysicsDt).rot_mat,
     Rotation3New(<<0, RotOne \div 2, 0>>)}
GeomBodies ==
    {[RigidBodyNew EXCEPT !.pos = p, !.rot_mat = r] :
        p \in GeomPositions, r \in GeomRotations}
GeomVectors == {<<coords_system_axes_sizes, 0, 0>>, <<Half, 0 - F32_TENTH, Unit>>}
GeomColors == {<<>>, <<Unit, Unit, 0>>}
GeomTips == {Half, F32_TENTH}
GeomPrefixes ==
    {<<>>, <<Unit, 0, 0 - Half>>, cuboid_to_vertices(<<>>, RigidBodyNew, TRUE)}

\* The record of one geometry call: the function, the vector as it was handed
\* over, and the arguments.
GeomCall(fn, b, wf, v, color, tip_size) ==
    [fn |-> fn, before |-> vertices, body |-> b, wireframe |-> wf,
     v |-> v, color |-> color, tip_size |-> tip_size]

\* cuboid_to_vertices(&mut vertices, &body, wireframe).
CallCuboid ==
    /\ pc = "idle" /\ n_events = 0 /\ n_draws = 0
    /\ Len(call) < MaxCalls
    /\ \E b \in GeomBodies, wf \in BOOLEAN :
           /\ vertices' = cuboid_to_vertices(vertices, b, wf)
           /\ call' = Append(call, GeomCall("cuboid_to_vertices", b, wf, Zero3, <<>>, 0))
    /\ UNCHANGED <<pc, runner, fail_at, lock, ev, vert_count, gl, rstate, hostv, ghosts>>

\* vector_to_vertices(&mut vertices, &body.pos, &v, color, tip_size).
CallVector ==
    /\ pc = "idle" /\ n_events = 0 /\ n_draws = 0
    /\ Len(call) < MaxCalls
    /\ \E p \in GeomPositions, v \in GeomVectors, color \in GeomColors,
          tip_size \in GeomTips :
           /\ vertices' = vector_to_vertices(vertices, p, v, color, tip_size)
           /\ call' = Append(call, GeomCall("vector_to_vertices",
                                            [RigidBodyNew EXCEPT !.pos = p], FALSE,
                                            v, color, tip_size))
    /\ UNCHANGED <<pc, runner, fail_at, lock, ev, vert_count, gl, rstate, hostv, ghosts>>

InitGeometry ==
    /\ Constructed
    /\ counter = 0
    /\ host = FreeHost
    /\ vertices \in GeomPrefixes
    /\ call = <<>>

\* The geometry functions called directly, and called by draw with the
\* wireframe flag as the V key leaves it.
NextGeometry ==
    \/ CallCuboid
    \/ CallVector
    \/ KeyPress("KeyV")
    \/ KeyDownMatch
    \/ KeyReturn
    \/ DrawTimer
    \/ DrawGl
    \/ DrawReturn

SpecGeometry == InitGeometry /\ [][NextGeometry]_vars

\* ------------------------------------------------------------ properties
Range(f) == {f[i] : i \in DOMAIN f}
WriterSteps ==
    {"keydown", "keydown_ret", "keyup", "keyup_ret"} \cup Range(physics_step)
ReaderSteps == Range(draw)
\* The scripted host has delivered its whole script and the last entry point
\* has returned.
ScriptDone(name) == host.mode = name /\ host.todo = <<>> /\ pc = "idle"

\* C1: wireframe is toggled on the press edge of V only, so whenever no entry
\* point is running wireframe differs from its initial value (false) iff the
\* number of V presses so far is odd; keydown events delivered while V is held
\* do not count as presses.
WireframeFlipsOncePerPress ==
    (runner = "live" /\ pc = "idle") => (wireframe <=> (v_presses % 2 = 1))

ShutdownCancelsEverything ==
    runner = "dropped" => (timers = {} /\ listeners = {} /\ dead_calls = {})

\* C4: at most one guard exists at a time; between entry points there is none;
\* a key closure or physics_step runs under the write guard and draw under one
\* read guard; and RunnerState changes only in a step that holds the write
\* guard before and after.
GuardDiscipline ==
    /\ [](/\ lock.readers + (IF lock.writer THEN 1 ELSE 0) <= 1
          /\ pc = "idle" => LockFree(lock)
          /\ pc \in WriterSteps => lock.writer
          /\ pc \in ReaderSteps => lock.readers = 1)
    /\ [][rstate' # rstate => (lock.writer /\ lock'.writer)]_vars

\* draw is reading the state under its read guard after keys and ticks have
\* written it.
DrawReadsUnderGuard ==
    /\ pc = "draw_upload_plain" /\ lock.readers = 1
    /\ n_ticks > 0 /\ n_events > 0

\* C5: between entry points counter equals the number of physics ticks
\* completed since start-up (LongRunStart of them before the first state, n_ticks
\* since), which is also the number of step_sim calls, each made with
\* dt = PHYSICS_INTERVAL / 1000.
CounterCountsTicks ==
    pc = "idle" =>
        /\ counter >= LongRunStart
        /\ counter - LongRunStart = n_ticks
        /\ step_sim_calls.n = n_ticks
        /\ step_sim_calls.dts \subseteq {PhysicsDt}

\* C6: within a physics tick the camera blocks have run before step_sim is
\* reached, the camera does not change once step_sim has run, and the body
\* changes only after the camera blocks.
CameraBeforeStepSim ==
    /\ [](/\ \A i, j \in DOMAIN tick_log :
                (tick_log[i] = "camera" /\ tick_log[j] = "step_sim") => i < j
          /\ pc = "phys_step_sim" => "camera" \in Range(tick_log)
          /\ pc = "phys_ret" => {"camera", "step_sim"} \subseteq Range(tick_log))
    /\ [][/\ rigid_body' # rigid_body => "camera" \in Range(tick_log)
          /\ (camera_pos' # camera_pos \/ camera_rot' # camera_rot) =>
                 "step_sim" \notin Range(tick_log)]_vars

\* A tick in which the camera both moved and turned, and the body was
\* integrated.
TickMovedCameraAndBody ==
    /\ pc = "phys_ret"
    /\ camera_pos # Zero3 /\ camera_rot # Identity3
    /\ rigid_body # RigidBodyNew

\* C7: after L held for 1571 ms of ticks, released, and W held for 1000 ms of
\* ticks, the camera has moved predominantly along world +X: camera_pos.x is
\* positive and larger in magnitude than camera_pos.y and camera_pos.z.
YawThenForwardMovesPlusX ==
    ScriptDone("yaw") =>
        /\ camera_pos[1] > 0
        /\ Abs(camera_pos[1]) > Abs(camera_pos[2])
        /\ Abs(camera_pos[1]) > Abs(camera_pos[3])

\* C7 as stated: the same run ends with camera_pos.x negative and larger in
\* magnitude than camera_pos.y and camera_pos.z.
YawThenForwardMovesMinusX ==
    ScriptDone("yaw") =>
        /\ camera_pos[1] < 0
        /\ Abs(camera_pos[1]) > Abs(camera_pos[2])
        /\ Abs(camera_pos[1]) > Abs(camera_pos[3])

YawThenForwardDone ==
    /\ ScriptDone("yaw")
    /\ n_ticks = (1571 \div PHYSICS_INTERVAL) + (1000 \div PHYSICS_INTERVAL)
    /\ held = {"KeyW"}

\* C8: with only D held from the default camera every tick leaves camera_pos.y,
\* camera_pos.z and camera_rot as they were and moves camera_pos.x by 0.01 to
\* within 10^-6 in total, so after 100 ticks camera_pos.x is within 10^-6 of 1.0.
StrafeReachesOne ==
    host.mode = "strafe" =>
        /\ camera_pos[2] = 0 /\ camera_pos[3] = 0
        /\ camera_rot = Identity3
        /\ pc = "idle" /\ keys_pressed["d"] =>
               Abs(camera_pos[1] - n_ticks * (Fine \div 100)) <= Fine \div 10^6
        /\ ScriptDone("strafe") => Abs(camera_pos[1] - Fine) <= Fine \div 10^6

\* C8 as stated: after the 100 ticks camera_pos.x = 1.0.
StrafeReachesExactlyOne ==
    ScriptDone("strafe") => camera_pos[1] = Fine

StrafeDone ==
    /\ ScriptDone("strafe")
    /\ n_ticks = 1000 \div PHYSICS_INTERVAL
    /\ held = {"KeyD"}

\* C9: when one of the start-up failures the contract lists happens, Runner::new
\* ends by returning Err to its caller and no Runner exists.
StartupFailuresAreReturned ==
    LET listed == {"canvas", "canvas_type", "context", "vbo",
                   "vs_plain", "fs_plain", "program_plain", "vao_plain",
                   "vs_colored", "fs_colored", "program_colored", "vao_colored",
                   "draw_interval", "physics_interval"}
    IN  (fail_at \in listed /\ runner # "new") => (runner = "err" /\ pc = "idle")

\* C10: when draw reaches its body draw call the frame has been cleared to
\* opaque black and holds no draw; at the end of draw the frame holds exactly
\* two draws over the black clear: the cuboid for the current body and
\* wireframe flag with the plain program, LINES if wireframe else TRIANGLES,
\* then the five arrows with the colored program as LINES, each fetching
\* exactly the vertices uploaded for it.
RenderOrder ==
    /\ pc = "draw_body" => (gl.frame.clear = Black /\ gl.frame.draws = <<>>)
    /\ pc = "draw_ret" =>
          LET f == gl.frame
              plain == cuboid_to_vertices(<<>>, rigid_body, wireframe)
              colored == ColoredGeometry(rigid_body)
          IN  /\ f.clear = Black
              /\ Len(f.draws) = 2
              /\ f.draws[1] = [program |-> "plain",
                               mode |-> IF wireframe THEN "LINES" ELSE "TRIANGLES",
                               count |-> Len(plain) \div 3,
                               floats |-> 3,
                               data |-> plain]
              /\ f.draws[2] = [program |-> "colored",
                               mode |-> "LINES",
                               count |-> Len(colored) \div 6,
                               floats |-> 6,
                               data |-> colored]
              /\ Len(plain) > 0 /\ Len(colored) = 5 * 14 * 6

\* A wireframe frame of a body that has been integrated.
WireframeFrameDrawn ==
    /\ pc = "draw_ret" /\ wireframe
    /\ rigid_body # RigidBodyNew

\* The latest geometry call, the floats it appended, and the k-th vertex
\* position among floats laid out w to a vertex.
LastCall == call[Len(call)]
Emitted == SubSeq(vertices, Len(LastCall.before) + 1, Len(vertices))
Point(out, w, k) == <<out[(k - 1) * w + 1], out[(k - 1) * w + 2], out[(k - 1) * w + 3]>>
LastIs(fn) == call # <<>> /\ LastCall.fn = fn

\* C11: a call of cuboid_to_vertices leaves what the vector held in place and
\* appends 36 vertices of 3 floats (108 floats) in solid mode and 24 (72
\* floats) in wireframe mode, whatever the pose; and the body draw of a render
\* tick draws 36 vertices when wireframe is false and 24 when it is true.
CuboidVertexCounts ==
    /\ LastIs("cuboid_to_vertices") =>
          LET n == IF LastCall.wireframe THEN 24 ELSE 36
          IN  /\ Len(vertices) = Len(LastCall.before) + 3 * n
              /\ Len(vertices) - Len(LastCall.before) =
                     (IF LastCall.wireframe THEN 72 ELSE 108)
              /\ SubSeq(vertices, 1, Len(LastCall.before)) = LastCall.before
    /\ pc = "draw_ret" =>
          /\ gl.frame.draws[1].count = (IF wireframe THEN 24 ELSE 36)
          /\ Len(gl.frame.draws[1].data) = 3 * gl.frame.draws[1].count

\* A wireframe cuboid of a turned body appended to a vector that held floats,
\* and a wireframe render tick at its end.
CuboidAppendedAndDrawn ==
    /\ LastIs("cuboid_to_vertices")
    /\ LastCall.before # <<>> /\ LastCall.wireframe
    /\ LastCall.body.rot_mat # Identity3
    /\ pc = "draw_ret" /\ wireframe

\* C12: a call of vector_to_vertices leaves what the vector held in place and
\* appends 14 vertices: pos, pos + v, then six legs from pos + v to pos + v
\* displaced by +tip_size, -tip_size along X, then Y, then Z (sums in f32);
\* with a colour every vertex is x, y, z, r, g, b (84 floats), without one
\* x, y, z (42 floats), the same layout for all 14.
ArrowLayout ==
    LastIs("vector_to_vertices") =>
        LET c == LastCall
            w == IF c.color = <<>> THEN 3 ELSE 6
            out == Emitted
            head == [i \in 1..3 |-> F32Add(c.body.pos[i], c.v[i])]
            tip(j) == [i \in 1..3 |->
                         IF i = (j + 1) \div 2
                         THEN F32Add(head[i], IF j % 2 = 1 THEN c.tip_size
                                              ELSE 0 - c.tip_size)
                         ELSE head[i]]
        IN  /\ SubSeq(vertices, 1, Len(c.before)) = c.before
            /\ Len(out) = 14 * w
            /\ Len(out) = (IF c.color = <<>> THEN 42 ELSE 84)
            /\ \A k \in 1..14 :
                  SubSeq(out, (k - 1) * w + 4, k * w) = c.color
            /\ Point(out, w, 1) = c.body.pos
            /\ Point(out, w, 2) = head
            /\ \A j \in 1..6 :
                  /\ Point(out, w, 2 * j + 1) = head
                  /\ Point(out, w, 2 * j + 2) = tip(j)

\* A coloured arrow appended to a vector that held floats.
ColouredArrowAppended ==
    /\ LastIs("vector_to_vertices")
    /\ LastCall.before # <<>> /\ LastCall.color # <<>>
    /\ LastCall.body.pos # Zero3

\* The cuboid of the latest call, for an unturned body: the offset of the k-th
\* emitted vertex from the body's position, the corner (sign triple) it is,
\* and the corners of the s-th segment and of the t-th triangle.
Offset(k) == [i \in 1..3 |-> Point(Emitted, 3, k)[i] - LastCall.body.pos[i]]
CornerOf(k) == [i \in 1..3 |-> Sgn(Offset(k)[i])]
Chebyshev(d) ==
    IF Abs(d[1]) >= Abs(d[2]) /\ Abs(d[1]) >= Abs(d[3]) THEN Abs(d[1])
    ELSE IF Abs(d[2]) >= Abs(d[3]) THEN Abs(d[2]) ELSE Abs(d[3])
Segment(n) == {CornerOf(2 * n - 1), CornerOf(2 * n)}
Triangle(n) == {CornerOf(3 * n - 2), CornerOf(3 * n - 1), CornerOf(3 * n)}
SignsApart(a, b) == Cardinality({i \in 1..3 : a[i] # b[i]})
OnFace(tri, i, sign) == \A corner \in tri : corner[i] = sign
UnturnedCuboid == LastIs("cuboid_to_vertices") /\ LastCall.body.rot_mat = Identity3

\* C13: for identity rotation every emitted vertex is a corner
\* pos + (+-0.5, +-0.5, +-0.5) computed in f32: each coordinate is 0.5 from pos
\* to within one f32 rounding (2^-24 for the poses here), and exactly 0.5 when
\* pos is 0.  In wireframe mode the 12 segments are the 12 distinct edges of
\* the cube (endpoints one sign apart, no edge twice); in solid mode each of
\* the 12 triangles has three corners of one face, and each of the 6 faces
\* holds exactly two triangles, which share two corners, a diagonal of the face.
UnturnedCuboidShape ==
    UnturnedCuboid =>
        LET n == Len(Emitted) \div 3
        IN  /\ \A k \in 1..n : \A i \in 1..3 :
                  /\ Abs(Abs(Offset(k)[i]) - Half) <= Unit \div 2^24
                  /\ LastCall.body.pos = Zero3 => Abs(Offset(k)[i]) = Half
            /\ LastCall.wireframe =>
                  /\ \A e \in 1..12 :
                        \E a, b \in Segment(e) : SignsApart(a, b) = 1
                  /\ Cardinality({Segment(e) : e \in 1..12}) = 12
            /\ ~LastCall.wireframe =>
                  /\ \A t \in 1..12 :
                        /\ Cardinality(Triangle(t)) = 3
                        /\ \E i \in 1..3, sign \in {0 - 1, 1} : OnFace(Triangle(t), i, sign)
                  /\ \A i \in 1..3, sign \in {0 - 1, 1} :
                        LET on == {t \in 1..12 : OnFace(Triangle(t), i, sign)}
                        IN  /\ Cardinality(on) = 2
                            /\ \A t, u \in on :
                                  t # u =>
                                     LET both == Triangle(t) \cap Triangle(u)
                                     IN  /\ Cardinality(both) = 2
                                         /\ \A a, b \in both :
                                               a # b => SignsApart(a, b) = 2

\* C13 as stated: for identity rotation every emitted vertex lies at Chebyshev
\* distance exactly 0.5 from pos.
UnturnedCuboidExactlyHalf ==
    UnturnedCuboid =>
        \A k \in 1..(Len(Emitted) \div 3) : Chebyshev(Offset(k)) = Half

\* The solid cuboid of an unturned body displaced from the origin.
UnturnedCuboidDisplaced ==
    /\ UnturnedCuboid
    /\ LastCall.body.pos = <<F32_TENTH, 0, 0>>
    /\ ~LastCall.wireframe

\* C14: every step of a render tick, from the draw interval firing to draw
\* returning, leaves counter, rigid_body, wireframe, keys_pressed, camera_pos
\* and camera_rot as they were, registers and cancels nothing, and draw returns
\* with the lock free; so a render tick placed anywhere among physics ticks and
\* key events leaves the state they act on as it found it.
RenderOnlyReads ==
    [][(pc \in ReaderSteps \/ pc' \in ReaderSteps) =>
          /\ rstate' = rstate
          /\ UNCHANGED <<closures, timers, listeners, held, ev, runner>>
          /\ pc' = "idle" => LockFree(lock')]_vars

\* A render tick has run to its end on a state that keys and physics ticks had
\* changed, and the state is as the frame shows it.
RenderedChangedState ==
    /\ runner = "live" /\ pc = "idle" /\ n_draws > 0
    /\ wireframe /\ rigid_body # RigidBodyNew /\ camera_pos # Zero3
    /\ gl.frame.draws # <<>>
    /\ gl.frame.draws[1].data = cuboid_to_vertices(<<>>, rigid_body, wireframe)

=============================================================================
